---- MODULE Spec2Model ----
(***************************************************************************)
(* Model of the GitHub repository search service: the popularity scoring   *)
(* of ScoringService (src/src/services/scoring.service.ts), its sort, and  *)
(* GitHubService.searchRepositories (src/unnamed/part_001).                *)
(*                                                                         *)
(* Numbers.  The code computes with IEEE doubles; TLC has 32-bit integers. *)
(* Real values are held in fixed point:                                    *)
(*   - a normalized term in [0,1] and the recency term: millionths (Unit), *)
(*   - a weight: hundredths (0.4 is 40),                                   *)
(*   - a popularity score: ten-thousandths (ScoreOne), so that a value     *)
(*     rounded to two decimals is a multiple of Cent.                      *)
(* Math.log10 and Math.exp are computed (binary logarithm by repeated      *)
(* squaring, Taylor series with range reduction); the result of            *)
(* calculatePopularityScore agrees with the double computation to within   *)
(* one hundredth on the inputs used here.                                  *)
(* Instants are whole days since the epoch.                                *)
(***************************************************************************)
EXTENDS Integers, Sequences, FiniteSets, TLC

(***************************************************************************)
(* Bounds of the model.                                                    *)
(***************************************************************************)
MaxStarsExp == 6      \* largest star count is 10^MaxStarsExp
MaxForksExp == 5      \* largest fork count is 10^MaxForksExp
MaxAgeDays == 3       \* ages 0..MaxAgeDays days are all covered
MaxAgeYears == 1      \* ages of 1..MaxAgeYears times 365 days
MaxItems == 2         \* longest page the upstream returns
MaxTicks == 1         \* clock ticks while one page is scored
MaxLen == 3           \* longest array handed to the sort
MaxSkewDays == 1      \* updated_at up to MaxSkewDays after "now"
MaxRequests == 3      \* requests of one IP followed through one window
OldAgeDays == 7300    \* an age at which the recency term has decayed to 0
NowDay == 20000       \* the instant of the first clock reading

(***************************************************************************)
(* Program constants.                                                      *)
(***************************************************************************)
maxStarsReference == 100000
maxForksReference == 10000
recencyDecayDays == 365
defaultPerPage == 30

Unit == 10^6          \* 1.0 of a normalized term
ScoreOne == 10^4      \* 1.0 of a popularity score
Cent == ScoreOne \div 100
NONE == "undefined"   \* an absent optional value

Min(a, b) == IF a < b THEN a ELSE b
Max(a, b) == IF a > b THEN a ELSE b

VARIABLES
    weights,    \* ScoringService.weights, fixed at construction
    now,        \* the wall clock, read by new Date()
    recA,       \* two raw records handed to calculatePopularityScore ...
    recB,
    scoreA,     \* ... and the values it returned
    scoreB,
    calls,      \* how many of the two calls have returned
    heap,       \* the arrays alive: heap[ref] is the content of array ref
    reposRef,   \* the array handed to sortByPopularityScore
    reposBefore,\* its content when it was handed over
    order,      \* the order argument (NONE when omitted)
    sortedRef,  \* the array returned by the first call (0: none yet)
    resortedRef,\* the array returned when that result is sorted again
    sortCalls,  \* how many of the two sort calls have returned
    query,      \* the SearchQuery handed to searchRepositories
    pc,         \* where that call stands: idle, awaiting, done, failed
    params,     \* the parameters of the upstream request, once it is sent
    upstreamCalls, \* how many upstream requests were sent
    response,   \* response.data of the upstream call, once it has arrived
    transformed, \* what transformRepositories returned for that response
    result,     \* the SearchResult returned
    error,      \* the error thrown
    failure,    \* the failure axios reported for the upstream request
    built,      \* <<r>> once buildQueryString, called alone, has ended with r
    req,        \* req.query of the HTTP request, as the client sent it
    httpPc,     \* the middleware the request has reached
    apiHits,    \* requests of this IP counted by apiRateLimiter in the window
    searchHits, \* requests of this IP counted by searchRateLimiter in the window
    validated,  \* req.query after validateSearchQuery has replaced it
    controllerCalls, \* how often the controller was entered
    httpResponse, \* the response sent
    responses,  \* how many responses were sent
    apiPassed,  \* requests of this IP that apiRateLimiter let pass in the window
    searchPassed, \* requests of this IP that searchRateLimiter let pass in the window
    requestNo   \* the how-manyth request of the behaviour this one is

searchVars ==
    <<query, pc, params, upstreamCalls, response, transformed, result, error, failure>>
scoreVars == <<recA, recB, scoreA, scoreB, calls>>
sortVars == <<heap, reposRef, reposBefore, order, sortedRef, resortedRef, sortCalls>>
windowVars == <<apiPassed, searchPassed, requestNo>>
httpVars ==
    <<req, httpPc, apiHits, searchHits, validated, controllerCalls, httpResponse, responses,
      windowVars>>
vars == <<weights, now, scoreVars, sortVars, searchVars, built, httpVars>>

(***************************************************************************)
(* Math.log10(a) / Math.log10(b), as log2(a) / log2(b).  Log2Fixed(n) is   *)
(* log2(n) with 12 fraction bits, the mantissa held with 14.               *)
(***************************************************************************)
RECURSIVE FloorLog2(_)
FloorLog2(n) == IF n < 2 THEN 0 ELSE 1 + FloorLog2(n \div 2)

RECURSIVE FracBits(_, _)
FracBits(m, k) ==
    IF k = 0 THEN 0
    ELSE LET sq == (m * m) \div 2^14
         IN  IF sq >= 2^15 THEN 2^(k - 1) + FracBits(sq \div 2, k - 1)
                           ELSE FracBits(sq, k - 1)

Log2Fixed(n) ==
    LET ip == FloorLog2(n)
        m  == IF ip >= 14 THEN n \div 2^(ip - 14) ELSE n * 2^(14 - ip)
    IN  ip * 2^12 + FracBits(m, 12)

\* Math.log10(count + 1) / Math.log10(reference + 1), in Unit
LogRatio(count, reference) ==
    ((Log2Fixed(count + 1) * 10^4) \div Log2Fixed(reference + 1)) * 100

(***************************************************************************)
(* Math.exp(-days / decay) in Unit: e^(-q) * e^(-r/decay) with             *)
(* days = q * decay + r; each factor by its Taylor series.                 *)
(***************************************************************************)
RECURSIVE TaylorNeg(_, _, _, _, _)
TaylorNeg(r, decay, k, t, sign) ==
    IF t = 0 THEN 0
    ELSE sign * t + TaylorNeg(r, decay, k + 1, (t * r) \div (decay * (k + 1)), -sign)

RECURSIVE TaylorPos(_, _, _, _)
TaylorPos(r, decay, k, t) ==
    IF t = 0 THEN 0
    ELSE t + TaylorPos(r, decay, k + 1, (t * r) \div (decay * (k + 1)))

\* a * b / Unit, by thousands so that no product leaves 32 bits
MulUnit(a, b) ==
    (a \div 1000) * (b \div 1000)
    + ((a % 1000) * (b \div 1000)) \div 1000
    + ((a \div 1000) * (b % 1000)) \div 1000
    + ((a % 1000) * (b % 1000)) \div Unit

RECURSIVE PowUnit(_, _)
PowUnit(a, q) == IF q = 0 THEN Unit ELSE MulUnit(PowUnit(a, q - 1), a)

ExpNeg(days, decay) ==
    IF days >= 0
    THEN IF days < decay
         THEN TaylorNeg(days, decay, 0, Unit, 1)
         ELSE MulUnit(PowUnit(TaylorNeg(decay, decay, 0, Unit, 1), days \div decay),
                      TaylorNeg(days % decay, decay, 0, Unit, 1))
    ELSE IF -days < decay
         THEN TaylorPos(-days, decay, 0, Unit)
         ELSE MulUnit(PowUnit(TaylorPos(decay, decay, 0, Unit), (-days) \div decay),
                      TaylorPos((-days) % decay, decay, 0, Unit))

\* Math.round(x) for x = n / d, d > 0 and even: floor(x + 0.5)
RoundDiv(n, d) == (n + d \div 2) \div d

(***************************************************************************)
(* ScoringService                                                          *)
(***************************************************************************)
\* config.scoring.weights with no environment override
DefaultWeights == [stars |-> 40, forks |-> 30, recency |-> 30]

normalizeStars_inverted(stars) ==
    IF stars <= 0 THEN 0
    ELSE Min(((Log2Fixed(maxStarsReference + 1) * 10^4) \div Log2Fixed(stars + 1)) * 100, Unit)

\* Math.min(normalized, 1.0) left out
normalizeStars_unclamped(stars) ==
    IF stars <= 0 THEN 0
    ELSE LogRatio(stars, maxStarsReference)

normalizeStars(stars) ==
    IF stars <= 0 THEN 0
    ELSE Min(LogRatio(stars, maxStarsReference), Unit)

normalizeForks_inverted(forks) ==
    IF forks <= 0 THEN 0
    ELSE Min(((Log2Fixed(maxForksReference + 1) * 10^4) \div Log2Fixed(forks + 1)) * 100, Unit)

normalizeForks(forks) ==
    IF forks <= 0 THEN 0
    ELSE Min(LogRatio(forks, maxForksReference), Unit)

\* the decay taken for the score: 1 - e^(-days/decay)
calculateRecencyScore_inverted(updatedAt, clock) ==
    Max(Unit - ExpNeg(clock - updatedAt, recencyDecayDays), 0)

\* Math.min in place of Math.max
calculateRecencyScore_min(updatedAt, clock) ==
    Min(ExpNeg(clock - updatedAt, recencyDecayDays), 0)

\* clock is the instant new Date() returns inside the call
calculateRecencyScore(updatedAt, clock) ==
    LET daysSinceUpdate == clock - updatedAt
    IN  Max(ExpNeg(daysSinceUpdate, recencyDecayDays), 0)

\* the weighted sum, in Unit * hundredths
WeightedSum(repo, clock, w) ==
    normalizeStars(repo.stargazers_count) * w.stars
    + normalizeForks(repo.forks_count) * w.forks
    + calculateRecencyScore(repo.updated_at, clock) * w.recency

\* Math.round(score * 10 * 100) / 100
calculatePopularityScore(repo, clock, w) ==
    RoundDiv(WeightedSum(repo, clock, w), 100000) * Cent

\* the comparator never answers 0
compareScores_noTie(a, b, ord) ==
    IF ord = "desc"
    THEN IF a.popularity_score < b.popularity_score THEN 1 ELSE -1
    ELSE IF a.popularity_score > b.popularity_score THEN 1 ELSE -1

\* the two branches exchanged
compareScores_swapped(a, b, ord) ==
    IF ord = "desc"
    THEN a.popularity_score - b.popularity_score
    ELSE b.popularity_score - a.popularity_score

\* the comparator handed to Array.prototype.sort
compareScores(a, b, ord) ==
    IF ord = "desc"
    THEN b.popularity_score - a.popularity_score
    ELSE a.popularity_score - b.popularity_score

\* Array.prototype.sort is a stable insertion of each element in turn: an
\* element moves left past the elements it compares strictly below
RECURSIVE InsertSorted(_, _, _)
InsertSorted(s, e, ord) ==
    IF s = <<>> THEN <<e>>
    ELSE LET last == s[Len(s)]
             front == SubSeq(s, 1, Len(s) - 1)
         IN  IF compareScores(e, last, ord) < 0
             THEN Append(InsertSorted(front, e, ord), last)
             ELSE Append(s, e)

RECURSIVE ArraySort(_, _)
ArraySort(s, ord) ==
    IF s = <<>> THEN <<>>
    ELSE InsertSorted(ArraySort(SubSeq(s, 1, Len(s) - 1), ord), s[Len(s)], ord)

\* the parameter default: order = 'desc' when the argument is omitted
DefaultOrder(ord) == IF ord = NONE THEN "desc" ELSE ord

\* repos.sort(...) without the copy
sortByPopularityScore_inPlace(h, ref, ord) ==
    [heap |-> [h EXCEPT ![ref] = ArraySort(h[ref], DefaultOrder(ord))], ref |-> ref]

\* [...repos].sort(...): a new array is allocated, sorted and returned
sortByPopularityScore(h, ref, ord) ==
    [heap |-> Append(h, ArraySort(h[ref], DefaultOrder(ord))), ref |-> Len(h) + 1]

(***************************************************************************)
(* GitHubService.  A string is a sequence of one-character strings; an     *)
(* optional value is <<>> when absent and <<v>> when present; an optional  *)
(* sort key or order is the word itself, NONE when absent.                 *)
(***************************************************************************)
Letters ==
    {"a", "b", "c", "d", "e", "f", "g", "h", "i", "j", "k", "l", "m",
     "n", "o", "p", "q", "r", "s", "t", "u", "v", "w", "x", "y", "z",
     "A", "B", "C", "D", "E", "F", "G", "H", "I", "J", "K", "L", "M",
     "N", "O", "P", "Q", "R", "S", "T", "U", "V", "W", "X", "Y", "Z"}
DigitChars == <<"0", "1", "2", "3", "4", "5", "6", "7", "8", "9">>
Digits == {DigitChars[i] : i \in 1..10}
Whitespace == {" ", "\t", "\n"}

\* a class that also removes plus, hash and dot
SanitizeAllowed_strict == Letters \cup Digits \cup Whitespace \cup {"-", "_"}

\* the complement of the class [^a-zA-Z0-9\s\-_+#.]
SanitizeAllowed == Letters \cup Digits \cup Whitespace \cup {"-", "_", "+", "#", "."}

IsAllowedChar(c) == c \in SanitizeAllowed

\* only the first character outside the class is removed
sanitizeInput_firstOnly(input) ==
    IF \A i \in 1..Len(input) : IsAllowedChar(input[i]) THEN input
    ELSE LET first == CHOOSE i \in 1..Len(input) :
                         /\ ~IsAllowedChar(input[i])
                         /\ \A j \in 1..(i - 1) : IsAllowedChar(input[j])
         IN  SubSeq(input, 1, first - 1) \o SubSeq(input, first + 1, Len(input))

\* input.replace(/[^a-zA-Z0-9\s\-_+#.]/g, '')
sanitizeInput(input) == SelectSeq(input, IsAllowedChar)

DigitValue(c) == (CHOOSE i \in 1..10 : DigitChars[i] = c) - 1

RECURSIVE ParseNumber(_)
ParseNumber(s) ==
    IF s = <<>> THEN 0
    ELSE 10 * ParseNumber(SubSeq(s, 1, Len(s) - 1)) + DigitValue(s[Len(s)])

IsLeapYear(y) == (y % 4 = 0 /\ y % 100 # 0) \/ y % 400 = 0

DaysInMonth(y, m) ==
    IF m = 2 THEN (IF IsLeapYear(y) THEN 29 ELSE 28)
    ELSE IF m \in {4, 6, 9, 11} THEN 30 ELSE 31

\* new Date(text) for a date-only text YYYY-MM-DD (UTC midnight of that
\* day; a day of 29..31 past the end of the month runs into the next
\* month), for such a date followed by T00:00:00.000Z, and for a text that
\* holds no date: an empty record is the Invalid Date, whose getTime() is NaN
InvalidDate == [valid |-> FALSE, year |-> 0, month |-> 0, day |-> 0]

MidnightSuffix == <<"T", "0", "0", ":", "0", "0", ":", "0", "0", ".", "0", "0", "0", "Z">>

NewDate(full) ==
    IF LET text == IF Len(full) = 10 + Len(MidnightSuffix)
                      /\ SubSeq(full, 11, Len(full)) = MidnightSuffix
                   THEN SubSeq(full, 1, 10) ELSE full
       IN  /\ Len(text) = 10
           /\ text[5] = "-" /\ text[8] = "-"
           /\ \A i \in {1, 2, 3, 4, 6, 7, 9, 10} : text[i] \in Digits
    THEN LET text == SubSeq(full, 1, 10)
             y == ParseNumber(SubSeq(text, 1, 4))
             m == ParseNumber(SubSeq(text, 6, 7))
             d == ParseNumber(SubSeq(text, 9, 10))
         IN  IF m \in 1..12 /\ d \in 1..31
             THEN IF d <= DaysInMonth(y, m)
                  THEN [valid |-> TRUE, year |-> y, month |-> m, day |-> d]
                  ELSE [valid |-> TRUE, year |-> y, month |-> m + 1,
                        day |-> d - DaysInMonth(y, m)]
             ELSE InvalidDate
    ELSE InvalidDate

\* n written with at least w digits
RECURSIVE PadNumber(_, _)
PadNumber(n, w) ==
    IF w <= 1 /\ n < 10 THEN <<DigitChars[n + 1]>>
    ELSE Append(PadNumber(n \div 10, w - 1), DigitChars[(n % 10) + 1])

\* month and day written without their leading zero
FormatDate_unpadded(date) ==
    PadNumber(date.year, 4) \o <<"-">> \o PadNumber(date.month, 1)
        \o <<"-">> \o PadNumber(date.day, 1)

\* date.toISOString().split('T')[0]
FormatDate(date) ==
    PadNumber(date.year, 4) \o <<"-">> \o PadNumber(date.month, 2)
        \o <<"-">> \o PadNumber(date.day, 2)

LanguagePrefix == <<"l", "a", "n", "g", "u", "a", "g", "e", ":">>
CreatedPrefix == <<"c", "r", "e", "a", "t", "e", "d", ":", ">", "=">>
DefaultClause == <<"s", "t", "a", "r", "s", ":", ">", "0">>

RECURSIVE JoinParts(_)
JoinParts(parts) ==
    IF parts = <<>> THEN <<>>
    ELSE IF Len(parts) = 1 THEN parts[1]
    ELSE parts[1] \o <<" ">> \o JoinParts(Tail(parts))

\* an optional string is truthy when present and not empty
TruthyText(opt) == opt # <<>> /\ opt[1] # <<>>
\* an optional number is truthy when present and not 0
TruthyNumber(opt) == opt # <<>> /\ opt[1] # 0
\* an optional word is truthy when present and not empty
TruthyWord(word) == word # NONE /\ word # ""

\* an optional number: undefined, NaN, or a number
Undefined == [kind |-> "undefined", value |-> 0]
NaN == [kind |-> "NaN", value |-> 0]
Number(n) == [kind |-> "number", value |-> n]

\* parseInt(text): the number written by the leading digits, NaN without one
LeadingDigits(text) ==
    LET stops == {i \in 1..Len(text) : text[i] \notin Digits}
        first == IF stops = {} THEN Len(text) + 1
                 ELSE CHOOSE i \in stops : \A j \in stops : i <= j
    IN  SubSeq(text, 1, first - 1)

parseInt(text) ==
    IF LeadingDigits(text) = <<>> THEN NaN ELSE Number(ParseNumber(LeadingDigits(text)))

\* details is <<>> when the error has none
ValidationError(message, details) ==
    [name |-> "ValidationError", statusCode |-> 400, message |-> message,
     details |-> details, resetTime |-> Undefined]
GitHubAPIError(message, statusCode) ==
    [name |-> "GitHubAPIError", statusCode |-> statusCode, message |-> message,
     details |-> <<>>, resetTime |-> Undefined]
RateLimitError(message, resetTime) ==
    [name |-> "RateLimitError", statusCode |-> 429, message |-> message,
     details |-> <<>>, resetTime |-> resetTime]
NotFoundError(message) ==
    [name |-> "NotFoundError", statusCode |-> 404, message |-> message,
     details |-> <<>>, resetTime |-> Undefined]
\* an error that is no AppError: it has no statusCode
PlainError(name, message) ==
    [name |-> name, statusCode |-> 0, message |-> message,
     details |-> <<>>, resetTime |-> Undefined]
AppErrorNames == {"AppError", "ValidationError", "GitHubAPIError", "RateLimitError", "NotFoundError"}

\* the created clause pushed before the language clause
buildQueryString_dateFirst(q) ==
    LET langParts ==
            IF TruthyText(q.language)
            THEN <<LanguagePrefix \o sanitizeInput(q.language[1])>>
            ELSE <<>>
        date == IF TruthyText(q.createdAfter) THEN NewDate(q.createdAfter[1])
                ELSE InvalidDate
        dateParts ==
            IF TruthyText(q.createdAfter)
            THEN <<CreatedPrefix \o FormatDate(date)>>
            ELSE <<>>
        parts == dateParts \o langParts
    IN  IF TruthyText(q.createdAfter) /\ ~date.valid
        THEN [threw |-> TRUE, value |-> <<>>,
              error |-> ValidationError("Invalid date format for createdAfter. Use ISO 8601 format (YYYY-MM-DD)", <<>>)]
        ELSE [threw |-> FALSE,
              value |-> JoinParts(IF parts = <<>> THEN <<DefaultClause>> ELSE parts),
              error |-> ValidationError("", <<>>)]

\* a createdAfter that holds no date is left out instead of refused
buildQueryString_skipInvalid(q) ==
    LET langParts ==
            IF TruthyText(q.language)
            THEN <<LanguagePrefix \o sanitizeInput(q.language[1])>>
            ELSE <<>>
        date == IF TruthyText(q.createdAfter) THEN NewDate(q.createdAfter[1])
                ELSE InvalidDate
        dateParts ==
            IF TruthyText(q.createdAfter) /\ date.valid
            THEN <<CreatedPrefix \o FormatDate(date)>>
            ELSE <<>>
        parts == langParts \o dateParts
    IN  [threw |-> FALSE,
         value |-> JoinParts(IF parts = <<>> THEN <<DefaultClause>> ELSE parts),
         error |-> ValidationError("", <<>>)]

\* the value returned, or the error thrown (threw = TRUE)
buildQueryString(q) ==
    LET langParts ==
            IF TruthyText(q.language)
            THEN <<LanguagePrefix \o sanitizeInput(q.language[1])>>
            ELSE <<>>
        date == IF TruthyText(q.createdAfter) THEN NewDate(q.createdAfter[1])
                ELSE InvalidDate
        dateParts ==
            IF TruthyText(q.createdAfter)
            THEN <<CreatedPrefix \o FormatDate(date)>>
            ELSE <<>>
        parts == langParts \o dateParts
    IN  IF TruthyText(q.createdAfter) /\ ~date.valid
        THEN [threw |-> TRUE, value |-> <<>>,
              error |-> ValidationError("Invalid date format for createdAfter. Use ISO 8601 format (YYYY-MM-DD)", <<>>)]
        ELSE [threw |-> FALSE,
              value |-> JoinParts(IF parts = <<>> THEN <<DefaultClause>> ELSE parts),
              error |-> ValidationError("", <<>>)]

\* every key that is set is passed on, 'score' included
mapSortParameter_passScore(sort) ==
    IF ~TruthyWord(sort) THEN NONE ELSE sort

mapSortParameter(sort) ==
    IF ~TruthyWord(sort) THEN NONE
    ELSE IF sort = "score" THEN NONE
    ELSE IF sort \in {"stars", "forks", "updated"} THEN sort
    ELSE NONE

\* every response is mapped to the generic error with the upstream status
handleAPIError_generic(err) ==
    IF err.hasResponse
    THEN GitHubAPIError("GitHub API request failed", err.status)
    ELSE IF err.hasRequest
    THEN GitHubAPIError("Unable to reach GitHub API. Please check your network connection.", 503)
    ELSE GitHubAPIError("An unexpected error occurred", 500)

\* the failure axios reports: a response with a status, or a request that
\* got no response, or neither
handleAPIError(err) ==
    IF err.hasResponse
    THEN IF err.status = 403 /\ err.rateLimitMessage
         THEN RateLimitError("GitHub API rate limit exceeded. Please try again later.",
                             IF TruthyText(err.resetHeader)
                             THEN parseInt(err.resetHeader[1]) ELSE Undefined)
         ELSE IF err.status = 422
         THEN ValidationError("Validation failed", <<>>)
         ELSE IF err.status = 503
         THEN GitHubAPIError("GitHub API is temporarily unavailable", 503)
         ELSE GitHubAPIError("GitHub API request failed", err.status)
    ELSE IF err.hasRequest
    THEN GitHubAPIError("Unable to reach GitHub API. Please check your network connection.", 503)
    ELSE GitHubAPIError("An unexpected error occurred", 500)

transformRepository(repo, clock, w) ==
    [id |-> repo.id,
     updated_at |-> repo.updated_at,
     stars |-> repo.stargazers_count,
     forks |-> repo.forks_count,
     popularity_score |-> calculatePopularityScore(repo, clock, w)]

\* the records come out last first
transformRepositories_reversed(repos, clocks, w) ==
    [i \in 1..Len(repos) |->
        transformRepository(repos[Len(repos) + 1 - i], clocks[i], w)]

\* repos.map(...): clocks[i] is the instant read while record i is scored
transformRepositories(repos, clocks, w) ==
    [i \in 1..Len(repos) |-> transformRepository(repos[i], clocks[i], w)]

\* the request parameters of searchRepositories
\* page and per_page take each other's value
searchParams_swapped(q, qs) ==
    [q |-> qs,
     sort |-> mapSortParameter(q.sort),
     order |-> IF TruthyWord(q.order) THEN q.order ELSE "desc",
     per_page |-> IF TruthyNumber(q.page) THEN q.page[1] ELSE 1,
     page |-> IF TruthyNumber(q.perPage) THEN q.perPage[1] ELSE defaultPerPage]

searchParams(q, qs) ==
    [q |-> qs,
     sort |-> mapSortParameter(q.sort),
     order |-> IF TruthyWord(q.order) THEN q.order ELSE "desc",
     per_page |-> IF TruthyNumber(q.perPage) THEN q.perPage[1] ELSE defaultPerPage,
     page |-> IF TruthyNumber(q.page) THEN q.page[1] ELSE 1]

\* the page is sorted whatever the sort key
searchResult_alwaysSort(q, prm, data, clocks, w) ==
    LET scored == transformRepositories(data.items, clocks, w)
        sorted == sortByPopularityScore(<<scored>>, 1,
                      IF TruthyWord(q.order) THEN q.order ELSE "desc")
    IN  [total_count |-> data.total_count,
         incomplete_results |-> data.incomplete_results,
         items |-> sorted.heap[sorted.ref],
         page |-> prm.page,
         per_page |-> prm.per_page]

\* searchRepositories from the arrival of the response to its return
searchResult(q, prm, data, clocks, w) ==
    LET scored == transformRepositories(data.items, clocks, w)
        sorted == sortByPopularityScore(<<scored>>, 1,
                      IF TruthyWord(q.order) THEN q.order ELSE "desc")
        scoredItems == IF q.sort = "score" THEN sorted.heap[sorted.ref] ELSE scored
    IN  [total_count |-> data.total_count,
         incomplete_results |-> data.incomplete_results,
         items |-> scoredItems,
         page |-> prm.page,
         per_page |-> prm.per_page]

(***************************************************************************)
(* SpecScore: calculatePopularityScore applied to two records at one       *)
(* instant.  The records differ in at most one field.                      *)
(***************************************************************************)
RawRecords ==
    [stargazers_count : {-1, 0, maxStarsReference - 1} \cup {10^k : k \in 4..MaxStarsExp},
     forks_count : {-1, 0} \cup {10^k : k \in 3..MaxForksExp},
     updated_at :
        {NowDay - a : a \in (-MaxSkewDays..MaxAgeDays)
                              \cup {recencyDecayDays * k : k \in 1..MaxAgeYears}
                              \cup {OldAgeDays}}]

\* parseFloat(process.env.SCORE_WEIGHT_x || default): any number the
\* environment supplies is taken as it is
WeightConfigs ==
    { DefaultWeights,
      [stars |-> 50, forks |-> 50, recency |-> 0],
      [stars |-> 0, forks |-> 0, recency |-> 1],
      [stars |-> 40, forks |-> 30, recency |-> 200] }

\* no array exists and no sort is called
SortIdle ==
    /\ heap = <<>>
    /\ reposRef = 0
    /\ reposBefore = <<>>
    /\ order = NONE
    /\ sortedRef = 0
    /\ resortedRef = 0
    /\ sortCalls = 0

EmptyParams == [q |-> <<>>, sort |-> NONE, order |-> NONE, per_page |-> 0, page |-> 0]
EmptyData == [total_count |-> 0, incomplete_results |-> FALSE, items |-> <<>>]
EmptyResult ==
    [total_count |-> 0, incomplete_results |-> FALSE, items |-> <<>>,
     page |-> 0, per_page |-> 0]
NoError ==
    [name |-> NONE, statusCode |-> 0, message |-> "", details |-> <<>>,
     resetTime |-> Undefined]
NoFailure ==
    [hasResponse |-> FALSE, hasRequest |-> FALSE, status |-> 0,
     rateLimitMessage |-> FALSE, resetHeader |-> <<>>, none |-> TRUE]
EmptyQuery ==
    [language |-> <<>>, createdAfter |-> <<>>, sort |-> NONE, order |-> NONE,
     page |-> <<>>, perPage |-> <<>>]

EmptyRequest ==
    [language |-> <<>>, createdAfter |-> <<>>, sort |-> NONE, order |-> NONE,
     page |-> <<>>, perPage |-> <<>>]
\* what a response holds: the HTTP status and the fields of the JSON body
Response(status, kind, message, statusCode, details, resetIn, body) ==
    [status |-> status, error |-> kind, message |-> message, statusCode |-> statusCode,
     details |-> details, resetIn |-> resetIn, body |-> body]
NoResponse == Response(0, NONE, "", 0, <<>>, Undefined, EmptyResult)

\* no HTTP request is under way
HttpIdle ==
    /\ req = EmptyRequest
    /\ httpPc = "idle"
    /\ apiHits = 0
    /\ searchHits = 0
    /\ validated = EmptyQuery
    /\ controllerCalls = 0
    /\ httpResponse = NoResponse
    /\ responses = 0
    /\ apiPassed = 0
    /\ searchPassed = 0
    /\ requestNo = 0

\* searchRepositories is not called
SearchIdle ==
    /\ query = EmptyQuery
    /\ pc = "idle"
    /\ params = EmptyParams
    /\ upstreamCalls = 0
    /\ response = EmptyData
    /\ transformed = <<>>
    /\ result = EmptyResult
    /\ error = NoError
    /\ failure = NoFailure
    /\ built = <<>>
    /\ HttpIdle

DiffersInOneField(a, b) ==
    Cardinality({f \in {"stargazers_count", "forks_count", "updated_at"} : a[f] # b[f]}) <= 1

InitScore ==
    /\ weights \in WeightConfigs
    /\ now = NowDay
    /\ recA \in RawRecords
    /\ recB \in {r \in RawRecords : DiffersInOneField(recA, r)}
    /\ scoreA = 0
    /\ scoreB = 0
    /\ calls = 0
    /\ SortIdle
    /\ SearchIdle

ScoreA ==
    /\ calls = 0
    /\ scoreA' = calculatePopularityScore(recA, now, weights)
    /\ calls' = 1
    /\ UNCHANGED <<weights, now, recA, recB, scoreB, sortVars, searchVars, built, httpVars>>

ScoreB ==
    /\ calls = 1
    /\ scoreB' = calculatePopularityScore(recB, now, weights)
    /\ calls' = 2
    /\ UNCHANGED <<weights, now, recA, recB, scoreA, sortVars, searchVars, built, httpVars>>

NextScore == ScoreA \/ ScoreB

SpecScore == InitScore /\ [][NextScore]_vars

BothScored == calls = 2

\* C1: with the default weights, every score of a record with stars >= 0,
\* forks >= 0 and a parseable updated_at lies in [0, 10] and has two decimals.
ScoreInRange ==
    (calls >= 1 /\ weights = DefaultWeights)
        => (0 <= scoreA /\ scoreA <= 10 * ScoreOne /\ scoreA % Cent = 0)

SameExcept(a, b, f) ==
    \A g \in {"stargazers_count", "forks_count", "updated_at"} \ {f} : a[g] = b[g]

\* C2: of two records equal in forks and updated_at and scored at the same
\* instant, the one with more stars scores at least as high.
StarsMonotone ==
    (BothScored /\ SameExcept(recA, recB, "stargazers_count")
        /\ recA.stargazers_count < recB.stargazers_count)
        => scoreA <= scoreB

StarsMonotoneWitness ==
    /\ BothScored
    /\ SameExcept(recA, recB, "stargazers_count")
    /\ recA.stargazers_count < recB.stargazers_count
    /\ recB.stargazers_count < maxStarsReference
    /\ scoreA < scoreB

\* C3: of two records equal in stars and updated_at and scored at the same
\* instant, the one with more forks scores at least as high.
ForksMonotone ==
    (BothScored /\ SameExcept(recA, recB, "forks_count")
        /\ recA.forks_count < recB.forks_count)
        => scoreA <= scoreB

ForksMonotoneWitness ==
    /\ BothScored
    /\ SameExcept(recA, recB, "forks_count")
    /\ recA.forks_count < recB.forks_count
    /\ recB.forks_count < maxForksReference
    /\ scoreA < scoreB

\* C4 as stated: of two records equal in stars and forks, both updated
\* before "now", the more recently updated one scores strictly higher
\* (stated for the default weights).
RecencyStrict ==
    (BothScored /\ weights = DefaultWeights
        /\ SameExcept(recA, recB, "updated_at")
        /\ recA.updated_at < recB.updated_at /\ recB.updated_at < now)
        => scoreA < scoreB

\* C4 amended: of two records equal in stars and forks, both updated
\* before "now", the more recently updated one scores at least as high
\* (the rounding to two decimals can make the two scores equal).
RecencyMonotone ==
    (BothScored /\ SameExcept(recA, recB, "updated_at")
        /\ recA.updated_at < recB.updated_at /\ recB.updated_at < now)
        => scoreA <= scoreB

RecencyMonotoneWitness ==
    /\ BothScored
    /\ SameExcept(recA, recB, "updated_at")
    /\ recA.updated_at < recB.updated_at /\ recB.updated_at < now
    /\ scoreA < scoreB

ZeroRepoNow(r) ==
    r.stargazers_count = 0 /\ r.forks_count = 0 /\ r.updated_at = now

SortScores == {400 * Cent, 550 * Cent, 750 * Cent}

RECURSIVE ScoredArrays(_)
ScoredArrays(n) ==
    IF n = 0 THEN {<<>>}
    ELSE {Append(s, [id |-> n, popularity_score |-> p]) :
            s \in ScoredArrays(n - 1), p \in SortScores}

\* no record is being scored
ScoreIdle ==
    /\ recA = [stargazers_count |-> 0, forks_count |-> 0, updated_at |-> NowDay]
    /\ recB = recA
    /\ scoreA = 0
    /\ scoreB = 0
    /\ calls = 0

InitSort ==
    /\ weights = DefaultWeights
    /\ now = NowDay
    /\ ScoreIdle
    /\ \E n \in 0..MaxLen : \E xs \in ScoredArrays(n) :
            heap = <<xs>> /\ reposBefore = xs
    /\ reposRef = 1
    /\ order \in {"asc", "desc", NONE}
    /\ sortedRef = 0
    /\ resortedRef = 0
    /\ sortCalls = 0
    /\ SearchIdle

SortOnce ==
    /\ sortCalls = 0
    /\ LET r == sortByPopularityScore(heap, reposRef, order)
       IN  heap' = r.heap /\ sortedRef' = r.ref
    /\ sortCalls' = 1
    /\ UNCHANGED <<weights, now, scoreVars, searchVars, built, httpVars, reposRef, reposBefore, order, resortedRef>>

SortAgain ==
    /\ sortCalls = 1
    /\ LET r == sortByPopularityScore(heap, sortedRef, order)
       IN  heap' = r.heap /\ resortedRef' = r.ref
    /\ sortCalls' = 2
    /\ UNCHANGED <<weights, now, scoreVars, searchVars, built, httpVars, reposRef, reposBefore, order, sortedRef>>

NextSort == SortOnce \/ SortAgain

SpecSort == InitSort /\ [][NextSort]_vars

HasTie(s) ==
    \E i, j \in 1..Len(s) : i < j /\ s[i].popularity_score = s[j].popularity_score

\* C6: after a call the argument array holds what it held before, and the
\* array returned is another array.
SortKeepsInput ==
    sortCalls >= 1 => (heap[reposRef] = reposBefore /\ sortedRef # reposRef)

SortKeepsInputWitness ==
    /\ sortCalls >= 1
    /\ heap[sortedRef] # reposBefore
    /\ heap[reposRef] = reposBefore

\* C7: sorting the result again, with the same order, gives the same
\* sequence, ties included.
SortIdempotent ==
    sortCalls = 2 => heap[resortedRef] = heap[sortedRef]

SortIdempotentWitness ==
    /\ sortCalls = 2
    /\ HasTie(reposBefore)
    /\ heap[sortedRef] # reposBefore
    /\ heap[resortedRef] = heap[sortedRef]

\* C8: two records of equal score come out in the order they came in.
SortStable ==
    sortCalls >= 1 =>
        \A i, j \in 1..Len(heap[sortedRef]) :
            (i < j /\ heap[sortedRef][i].popularity_score = heap[sortedRef][j].popularity_score)
                => heap[sortedRef][i].id < heap[sortedRef][j].id

SortStableWitness ==
    /\ sortCalls = 1
    /\ heap[sortedRef] # reposBefore
    /\ \E i, j \in 1..Len(heap[sortedRef]) :
            /\ i < j
            /\ heap[sortedRef][i].popularity_score = heap[sortedRef][j].popularity_score
            /\ heap[sortedRef][i].id < heap[sortedRef][j].id

Occurrences(s, r) == Cardinality({i \in 1..Len(s) : s[i] = r})

IsPermutation(s, t) ==
    /\ Len(s) = Len(t)
    /\ \A i \in 1..Len(t) : Occurrences(s, t[i]) = Occurrences(t, t[i])

\* C9: the result is a permutation of the input, non-increasing in
\* popularity_score for 'desc' or no order, non-decreasing for 'asc'.
SortOrdersPermutation ==
    sortCalls >= 1 =>
        LET out == heap[sortedRef]
        IN  /\ IsPermutation(out, reposBefore)
            /\ \A i \in 1..(Len(out) - 1) :
                  IF order = "asc"
                  THEN out[i].popularity_score <= out[i + 1].popularity_score
                  ELSE out[i].popularity_score >= out[i + 1].popularity_score

SortOrdersPermutationWitness ==
    /\ sortCalls >= 1
    /\ order = "asc"
    /\ Len(reposBefore) = MaxLen
    /\ reposBefore[1].popularity_score > reposBefore[MaxLen].popularity_score
    /\ heap[sortedRef][1].popularity_score < heap[sortedRef][MaxLen].popularity_score

(***************************************************************************)
(* Spec: one call of searchRepositories.  The call runs to the upstream    *)
(* request (or to the ValidationError of buildQueryString), waits, and     *)
(* runs from the response, or from the failure, to its end.  While a page  *)
(* is scored the clock may tick between two records: each record is       *)
(* scored with its own new Date().                                         *)
(***************************************************************************)

Queries ==
    [language :
        {<<>>, <<<<"t", "s">>>>, <<<<"t", "y", "p", "e", "<", "s", "c", "r", "i", "p", "t", ">", "!">>>>}, createdAfter :
        {<<>>, <<<<>>>>, <<<<"2", "0", "2", "4", "-", "0", "1", "-", "0", "1">>>>, <<<<"n", "o", "t", "-", "a", "-", "d", "a", "t", "e">>>>},
     sort : {NONE, "score", "stars", "forks", "updated"},
     order : {NONE, "asc", "desc"},
     page : {<<>>, <<2>>, <<100>>}, perPage : {<<>>, <<10>>, <<100>>}]

\* the repositories the upstream knows; 1 and 3 differ in the id only
Pool ==
    { [id |-> 1, stargazers_count |-> 1000, forks_count |-> 100, updated_at |-> NowDay],
      [id |-> 2, stargazers_count |-> 100000, forks_count |-> 10000,
       updated_at |-> NowDay - recencyDecayDays],
      [id |-> 3, stargazers_count |-> 1000, forks_count |-> 100, updated_at |-> NowDay] }

\* a page holds every repository at most once
Pages ==
    {s \in UNION {[1..n -> Pool] : n \in 0..MaxItems} :
        \A i, j \in 1..Len(s) : i # j => s[i].id # s[j].id}

ClockReadings(n, t) ==
    {c \in [1..n -> t..(NowDay + MaxTicks)] : \A i, j \in 1..n : i < j => c[i] <= c[j]}

ResetHeaders ==
    {<<>>, <<<<"0">>>>, <<<<"1", "9", "9", "9", "9">>>>, <<<<"2", "0", "0", "0", "1">>>>, <<<<"1", "0", "0", "0", "0", "0", "0", "0", "1">>>>, <<<<"s", "o", "o", "n">>>>}

Failure(hasResponse, hasRequest, status, rateLimitMessage, resetHeader) ==
    [hasResponse |-> hasResponse, hasRequest |-> hasRequest, status |-> status,
     rateLimitMessage |-> rateLimitMessage, resetHeader |-> resetHeader,
     none |-> FALSE]

\* the failures of the upstream request; the x-ratelimit-reset header is
\* left out, or holds an instant in the unit of the clock, or no number
UpstreamFailures ==
    {Failure(TRUE, TRUE, 403, TRUE, h) : h \in ResetHeaders}
    \cup {Failure(TRUE, TRUE, 403, FALSE, <<>>),
          Failure(TRUE, TRUE, 422, FALSE, <<>>),
          Failure(TRUE, TRUE, 503, FALSE, <<>>),
          Failure(TRUE, TRUE, 500, FALSE, <<>>),
          Failure(TRUE, TRUE, 404, FALSE, <<>>),
          Failure(FALSE, TRUE, 0, FALSE, <<>>),
          Failure(FALSE, FALSE, 0, FALSE, <<>>)}

Init ==
    /\ weights = DefaultWeights
    /\ now = NowDay
    /\ ScoreIdle
    /\ SortIdle
    /\ query \in Queries
    /\ pc = "idle"
    /\ params = EmptyParams
    /\ upstreamCalls = 0
    /\ response = EmptyData
    /\ transformed = <<>>
    /\ result = EmptyResult
    /\ error = NoError
    /\ failure = NoFailure
    /\ built = <<>>
    /\ HttpIdle

\* searchRepositories(q) up to the await of client.get
StartSearch(q) ==
    LET queryString == buildQueryString(q)
    IN  IF queryString.threw
        THEN /\ pc' = "failed"
             /\ error' = queryString.error
             /\ UNCHANGED <<params, upstreamCalls>>
        ELSE /\ pc' = "awaiting"
             /\ params' = searchParams(q, queryString.value)
             /\ upstreamCalls' = upstreamCalls + 1
             /\ UNCHANGED error

\* searchRepositories up to the await of client.get
SearchStart ==
    /\ pc = "idle"
    /\ StartSearch(query)
    /\ UNCHANGED <<weights, now, scoreVars, sortVars, query, response, transformed, result,
                   failure, built, httpVars>>

\* the response arrives: transform, sort when asked to, return
UpstreamResponds ==
    /\ pc = "awaiting"
    /\ \E items \in Pages, incomplete \in BOOLEAN :
         \E clocks \in ClockReadings(Len(items), now) :
            LET data == [total_count |-> Len(items), incomplete_results |-> incomplete,
                         items |-> items]
            IN  /\ response' = data
                /\ transformed' = transformRepositories(data.items, clocks, weights)
                /\ result' = searchResult(query, params, data, clocks, weights)
                /\ now' = IF clocks = <<>> THEN now ELSE clocks[Len(clocks)]
    /\ pc' = "done"
    /\ UNCHANGED <<weights, scoreVars, sortVars, query, params, upstreamCalls, error,
                   failure, built, httpVars>>

\* the failed request is sent once more instead of the error being thrown
UpstreamFails_retry ==
    /\ pc = "awaiting"
    /\ upstreamCalls < 2
    /\ upstreamCalls' = upstreamCalls + 1
    /\ UNCHANGED <<weights, now, scoreVars, sortVars, query, pc, params, error, failure,
                   response, transformed, result, built, httpVars>>

\* the request fails: the interceptor maps the failure, the catch rethrows
UpstreamFails ==
    /\ pc = "awaiting"
    /\ \E f \in UpstreamFailures :
          /\ failure' = f
          /\ error' = handleAPIError(f)
    /\ pc' = "failed"
    /\ UNCHANGED <<weights, now, scoreVars, sortVars, query, params, upstreamCalls,
                   response, transformed, result, built, httpVars>>

Next == SearchStart \/ UpstreamResponds \/ UpstreamFails

Spec == Init /\ [][Next]_vars

EffectiveOrder == IF TruthyWord(query.order) THEN query.order ELSE "desc"

\* C10: the page is re-sorted by popularity_score only for the sort key
\* 'score'; for stars, forks, updated or no sort key the items come in the
\* order of the upstream response.
SortOnlyForScore ==
    pc = "done" =>
        /\ Len(result.items) = Len(response.items)
        /\ IF query.sort = "score"
           THEN \A i \in 1..(Len(result.items) - 1) :
                    IF EffectiveOrder = "desc"
                    THEN result.items[i].popularity_score >= result.items[i + 1].popularity_score
                    ELSE result.items[i].popularity_score <= result.items[i + 1].popularity_score
           ELSE \A i \in 1..Len(result.items) : result.items[i].id = response.items[i].id

SortOnlyForScoreWitness ==
    /\ pc = "done"
    /\ query.sort \in {"stars", "forks", "updated", NONE}
    /\ EffectiveOrder = "desc"
    /\ Len(result.items) >= 2
    /\ result.items[1].id = response.items[1].id
    /\ result.items[1].popularity_score < result.items[2].popularity_score

\* C11: transformRepositories returns as many records as it was given, the
\* i-th made from the i-th: same id, stars = stargazers_count, forks =
\* forks_count.
TransformElementwise ==
    pc = "done" =>
        /\ Len(transformed) = Len(response.items)
        /\ \A i \in 1..Len(transformed) :
              /\ transformed[i].id = response.items[i].id
              /\ transformed[i].stars = response.items[i].stargazers_count
              /\ transformed[i].forks = response.items[i].forks_count
              /\ transformed[i].updated_at = response.items[i].updated_at

TransformElementwiseWitness ==
    /\ pc = "done"
    /\ Len(response.items) = MaxItems
    /\ Len(transformed) = MaxItems
    /\ transformed[1].id # transformed[MaxItems].id
    /\ transformed[1].id = response.items[1].id
    /\ transformed[1].stars = response.items[1].stargazers_count

(***************************************************************************)
(* SpecQuery: buildQueryString called alone on a query.                    *)
(***************************************************************************)

QueryInputs ==
    [language :
        {<<>>, <<<<>>>>, <<<<"t", "s">>>>, <<<<"c", "+", "+">>>>, <<<<"t", "y", "p", "e", "<", "s", "c", "r", "i", "p", "t", ">", "!">>>>, <<<<"<", ">">>>>, <<<<"g", "o", " ", "s", "t", "a", "r", "s", ":", ">", "5">>>>, <<<<"a", "_", "b", "-", "c", "#", ".", "1">>>>}, createdAfter :
        {<<>>, <<<<>>>>, <<<<"2", "0", "2", "4", "-", "0", "1", "-", "0", "1">>>>, <<<<"2", "0", "2", "3", "-", "1", "2", "-", "3", "1">>>>, <<<<"2", "0", "2", "4", "-", "0", "2", "-", "2", "9">>>>, <<<<"2", "0", "0", "0", "-", "1", "0", "-", "0", "9">>>>, <<<<"2", "0", "2", "3", "-", "0", "2", "-", "3", "0">>>>, <<<<"n", "o", "t", "-", "a", "-", "d", "a", "t", "e">>>>, <<<<"y", "e", "s", "t", "e", "r", "d", "a", "y">>>>},
     sort : {NONE}, order : {NONE}, page : {<<>>}, perPage : {<<>>}]

InitQuery ==
    /\ weights = DefaultWeights
    /\ now = NowDay
    /\ ScoreIdle
    /\ SortIdle
    /\ query \in QueryInputs
    /\ pc = "idle"
    /\ params = EmptyParams
    /\ upstreamCalls = 0
    /\ response = EmptyData
    /\ transformed = <<>>
    /\ result = EmptyResult
    /\ error = NoError
    /\ failure = NoFailure
    /\ built = <<>>
    /\ HttpIdle

BuildQuery ==
    /\ built = <<>>
    /\ built' = <<buildQueryString(query)>>
    /\ UNCHANGED <<weights, now, scoreVars, sortVars, searchVars, httpVars>>

NextQuery == BuildQuery

SpecQuery == InitQuery /\ [][NextQuery]_vars

\* buildQueryString has returned a string
Returned == built # <<>> /\ ~built[1].threw

OperatorChars == {":", ">", "<", "="}

\* a qualifier, a colon, maybe comparison signs, and then a value
HasWellFormedClause(v) ==
    \E p \in 2..Len(v) :
        /\ v[p] = ":"
        /\ v[p - 1] \in Letters
        /\ \E k \in (p + 1)..Len(v) :
              /\ \A m \in (p + 1)..(k - 1) : v[m] \in {">", "<", "="}
              /\ v[k] \notin (OperatorChars \cup Whitespace)

\* C12: the string returned is never empty and holds a well-formed clause;
\* with no filter it is "stars:>0".
QueryNeverUnconstrained ==
    Returned =>
        /\ built[1].value # <<>>
        /\ HasWellFormedClause(built[1].value)
        /\ (query.language = <<>> /\ query.createdAfter = <<>>)
              => built[1].value = DefaultClause

\* the text after "language:" in the string returned, up to the created
\* clause when there is one
LanguageValue ==
    LET v == built[1].value
        last == IF TruthyText(query.createdAfter)
                THEN Len(v) - Len(CreatedPrefix) - Len(query.createdAfter[1]) - 1
                ELSE Len(v)
    IN  SubSeq(v, Len(LanguagePrefix) + 1, last)

RECURSIVE IsSubsequence(_, _)
IsSubsequence(s, t) ==
    IF s = <<>> THEN TRUE
    ELSE IF t = <<>> THEN FALSE
    ELSE IF s[1] = t[1] THEN IsSubsequence(Tail(s), Tail(t))
    ELSE IsSubsequence(s, Tail(t))

TypeScriptNoisy == <<<<"t", "y", "p", "e", "<", "s", "c", "r", "i", "p", "t", ">", "!">>>>
TypeScriptClean == <<<<"t", "y", "p", "e", "s", "c", "r", "i", "p", "t">>>>

\* C13: the language clause holds the caller's language with exactly the
\* characters outside {letters, digits, whitespace, - _ + # .} removed, the
\* others kept in order; so no ':', '>', '<' or '=' of the caller is in it,
\* and "type<script>!" gives "language:typescript".
SanitizeStripsDisallowed ==
    (Returned /\ TruthyText(query.language)) =>
        LET input == query.language[1]
            v == built[1].value
            val == LanguageValue
        IN  /\ SubSeq(v, 1, Len(LanguagePrefix)) = LanguagePrefix
            /\ \A i \in 1..Len(val) :
                  /\ val[i] \in SanitizeAllowed
                  /\ val[i] \notin OperatorChars
            /\ Len(val) = Cardinality({i \in 1..Len(input) : input[i] \in SanitizeAllowed})
            /\ IsSubsequence(val, input)
            /\ input = TypeScriptNoisy[1] => val = TypeScriptClean[1]

SanitizeStripsDisallowedWitness ==
    /\ Returned
    /\ query.language = TypeScriptNoisy
    /\ query.createdAfter = <<>>
    /\ built[1].value = LanguagePrefix \o TypeScriptClean[1]

\* a text YYYY-MM-DD that names a day of the calendar
IsCalendarDateText(t) ==
    /\ Len(t) = 10
    /\ t[5] = "-" /\ t[8] = "-"
    /\ \A i \in {1, 2, 3, 4, 6, 7, 9, 10} : t[i] \in Digits
    /\ LET y == ParseNumber(SubSeq(t, 1, 4))
           m == ParseNumber(SubSeq(t, 6, 7))
           d == ParseNumber(SubSeq(t, 9, 10))
       IN  m \in 1..12 /\ d \in 1..DaysInMonth(y, m)

\* the last n characters of v
Suffix(v, n) == SubSeq(v, Len(v) - n + 1, Len(v))

\* C18: a createdAfter that is a calendar date D written YYYY-MM-DD gives the
\* clause "created:>=D"; whenever a created clause is emitted its date is a
\* calendar date written YYYY-MM-DD.
CreatedClauseKeepsDate ==
    (built # <<>> /\ TruthyText(query.createdAfter)) =>
        LET text == query.createdAfter[1]
            v == built[1].value
        IN  /\ IsCalendarDateText(text) =>
                  /\ ~built[1].threw
                  /\ Len(v) >= Len(CreatedPrefix) + Len(text)
                  /\ Suffix(v, Len(CreatedPrefix) + Len(text)) = CreatedPrefix \o text
            /\ ~built[1].threw =>
                  /\ Len(v) >= Len(CreatedPrefix) + Len(text)
                  /\ IsCalendarDateText(Suffix(v, Len(text)))
                  /\ SubSeq(Suffix(v, Len(CreatedPrefix) + Len(text)), 1, Len(CreatedPrefix))
                        = CreatedPrefix

CreatedClauseKeepsDateWitness ==
    /\ Returned
    /\ query.language = <<>>
    /\ TruthyText(query.createdAfter)
    /\ IsCalendarDateText(query.createdAfter[1])
    /\ query.createdAfter[1][6] = "0"
    /\ built[1].value = CreatedPrefix \o query.createdAfter[1]

\* C19: the clauses are joined by one space in the order language, created;
\* "stars:>0" is the whole string exactly when neither was produced.
ClauseOrder ==
    Returned =>
        LET v == built[1].value
            hasLang == TruthyText(query.language)
            hasDate == TruthyText(query.createdAfter)
            dateLen == IF hasDate
                       THEN Len(CreatedPrefix) + Len(query.createdAfter[1])
                       ELSE 0
        IN  /\ hasLang =>
                  /\ Len(v) >= Len(LanguagePrefix)
                  /\ SubSeq(v, 1, Len(LanguagePrefix)) = LanguagePrefix
            /\ hasDate =>
                  /\ Len(v) >= dateLen
                  /\ SubSeq(Suffix(v, dateLen), 1, Len(CreatedPrefix)) = CreatedPrefix
            /\ (hasLang /\ hasDate) =>
                  /\ Len(v) >= Len(LanguagePrefix) + 1 + dateLen
                  /\ v[Len(v) - dateLen] = " "
                  /\ Len(v) = Len(LanguagePrefix) + Len(LanguageValue) + 1 + dateLen
            /\ (hasLang /\ ~hasDate) => Len(v) = Len(LanguagePrefix) + Len(LanguageValue)
            /\ (~hasLang /\ hasDate) => Len(v) = dateLen
            /\ (~hasLang /\ ~hasDate) <=> v = DefaultClause

ClauseOrderWitness ==
    /\ Returned
    /\ TruthyText(query.language)
    /\ TruthyText(query.createdAfter)
    /\ SubSeq(built[1].value, 1, Len(LanguagePrefix)) = LanguagePrefix
    /\ built[1].value[Len(LanguagePrefix) + Len(query.language[1]) + 1] = " "

\* C14 as stated: a createdAfter that is set, the empty string included, and
\* holds no date makes searchRepositories end with a ValidationError, no
\* upstream call issued.
SetInvalidDateStopsSearch ==
    (pc # "idle" /\ query.createdAfter # <<>>
        /\ ~NewDate(query.createdAfter[1]).valid) =>
        /\ pc = "failed"
        /\ error.name = "ValidationError"
        /\ upstreamCalls = 0

\* C14: a createdAfter that is a non-empty string and holds no date makes
\* searchRepositories end with the ValidationError of buildQueryString, no
\* upstream call issued.
InvalidDateStopsSearch ==
    (pc # "idle" /\ TruthyText(query.createdAfter)
        /\ ~NewDate(query.createdAfter[1]).valid) =>
        /\ pc = "failed"
        /\ error.name = "ValidationError"
        /\ error.statusCode = 400
        /\ error = buildQueryString(query).error
        /\ upstreamCalls = 0

InvalidDateStopsSearchWitness ==
    /\ pc = "failed"
    /\ TruthyText(query.createdAfter)
    /\ ~IsCalendarDateText(query.createdAfter[1])
    /\ error.name = "ValidationError"
    /\ upstreamCalls = 0

\* C15: the sort sent upstream is the key itself for stars, forks and
\* updated, and is unset for 'score' and for no key; nothing else is sent.
SortKeyMapped ==
    upstreamCalls > 0 =>
        /\ query.sort \in {"stars", "forks", "updated"} => params.sort = query.sort
        /\ query.sort \in {"score", NONE} => params.sort = NONE
        /\ params.sort \in {NONE, "stars", "forks", "updated"}

SortKeyMappedWitness ==
    /\ upstreamCalls > 0
    /\ query.sort = "score"
    /\ params.sort = NONE

\* C16: page and perPage are sent upstream as supplied, 1 and 30 when absent;
\* the result echoes the values sent; order is 'desc' when absent.
PaginationPassThrough ==
    upstreamCalls > 0 =>
        /\ params.page = (IF query.page = <<>> THEN 1 ELSE query.page[1])
        /\ params.per_page =
              (IF query.perPage = <<>> THEN defaultPerPage ELSE query.perPage[1])
        /\ params.order = (IF query.order = NONE THEN "desc" ELSE query.order)
        /\ pc = "done" =>
              /\ result.page = params.page
              /\ result.per_page = params.per_page

PaginationPassThroughWitness ==
    /\ pc = "done"
    /\ query.page # <<>>
    /\ query.perPage = <<>>
    /\ query.order = NONE
    /\ result.page = query.page[1]
    /\ result.per_page = defaultPerPage
    /\ params.order = "desc"

\* C20: two records of one transformRepositories call that agree on stars,
\* forks and updated_at get the same popularity_score.
SameStatsSameScore ==
    pc = "done" =>
        \A i, j \in 1..Len(transformed) :
            (/\ transformed[i].stars = transformed[j].stars
             /\ transformed[i].forks = transformed[j].forks
             /\ transformed[i].updated_at = transformed[j].updated_at)
                => transformed[i].popularity_score = transformed[j].popularity_score

(***************************************************************************)
(* SpecHttp: one GET /api/repositories/search request from one IP, through *)
(* apiRateLimiter, searchRateLimiter, validateSearchQuery, the controller  *)
(* and the error handler.                                                  *)
(***************************************************************************)
apiMax == 100
searchMax == 30
maxPage == 100
maxPerPage == 100
maxLanguageLength == 50

ValidSorts == {"score", "stars", "forks", "updated"}
ValidOrders == {"asc", "desc"}
\* the class [a-zA-Z0-9#+\-_.] of the language pattern
LanguageAlphabet == Letters \cup Digits \cup {"#", "+", "-", "_", "."}

NotANumber == [ok |-> FALSE, tenths |-> 0]

IsDigits(t) == t # <<>> /\ \A i \in 1..Len(t) : t[i] \in Digits

\* Joi's conversion of a query text to a number, for unsigned decimal texts
\* with at most one digit after the point; the number is kept in tenths
ConvertNumber(text) ==
    LET dots == {i \in 1..Len(text) : text[i] = "."}
    IN  IF dots = {}
        THEN IF IsDigits(text)
             THEN [ok |-> TRUE, tenths |-> 10 * ParseNumber(text)]
             ELSE NotANumber
        ELSE LET d == CHOOSE i \in dots : TRUE
                 whole == SubSeq(text, 1, d - 1)
                 frac == SubSeq(text, d + 1, Len(text))
             IN  IF Cardinality(dots) = 1 /\ IsDigits(whole) /\ IsDigits(frac)
                    /\ Len(frac) = 1
                 THEN [ok |-> TRUE, tenths |-> 10 * ParseNumber(whole) + ParseNumber(frac)]
                 ELSE NotANumber

Detail(field, message) == [field |-> field, message |-> message]

\* Joi.string().min(1).max(50).pattern(...): every failed rule adds a detail
LanguageDetails(raw) ==
    IF raw = <<>> THEN <<>>
    ELSE IF raw[1] = <<>>
    THEN <<Detail("language", "\"language\" is not allowed to be empty")>>
    ELSE (IF Len(raw[1]) > maxLanguageLength
          THEN <<Detail("language", "\"language\" length must be less than or equal to 50 characters long")>>
          ELSE <<>>)
         \o (IF \E i \in 1..Len(raw[1]) : raw[1][i] \notin LanguageAlphabet
             THEN <<Detail("language", "Language must contain only alphanumeric characters and #+-._ symbols")>>
             ELSE <<>>)

\* Joi.string().isoDate()
CreatedAfterDetails(raw) ==
    IF raw = <<>> THEN <<>>
    ELSE IF raw[1] = <<>>
    THEN <<Detail("createdAfter", "\"createdAfter\" is not allowed to be empty")>>
    ELSE IF ~IsCalendarDateText(raw[1])
    THEN <<Detail("createdAfter", "createdAfter must be a valid ISO 8601 date (YYYY-MM-DD)")>>
    ELSE <<>>

\* Joi.string().valid('score', 'stars', 'forks', 'updated')
SortDetails(word) ==
    IF word = NONE \/ word \in ValidSorts THEN <<>>
    ELSE <<Detail("sort", "sort must be one of: score, stars, forks, updated")>>

\* Joi.string().valid('asc', 'desc')
OrderDetails(word) ==
    IF word = NONE \/ word \in ValidOrders THEN <<>>
    ELSE <<Detail("order", "order must be either asc or desc")>>

\* Joi.number().integer().min(1).max(max): a text that is no number fails
\* at once; for a number every failed rule adds a detail
NumberDetails(field, raw, max, messages) ==
    IF raw = <<>> THEN <<>>
    ELSE LET n == ConvertNumber(raw[1])
         IN  IF ~n.ok THEN <<Detail(field, messages.base)>>
             ELSE (IF n.tenths % 10 # 0 THEN <<Detail(field, messages.integer)>> ELSE <<>>)
                  \o (IF n.tenths < 10 * 1 THEN <<Detail(field, messages.min)>> ELSE <<>>)
                  \o (IF n.tenths > 10 * max THEN <<Detail(field, messages.max)>> ELSE <<>>)

PageMessages ==
    [base |-> "page must be a number",
     integer |-> "\"page\" must be an integer",
     min |-> "page must be at least 1",
     max |-> "page cannot exceed 100 (GitHub API limitation)"]
PerPageMessages ==
    [base |-> "perPage must be a number",
     integer |-> "\"perPage\" must be an integer",
     min |-> "perPage must be at least 1",
     max |-> "perPage cannot exceed 100"]

\* error.details of searchQuerySchema.validate(req.query, {abortEarly: false})
SchemaDetails(rq) ==
    LanguageDetails(rq.language) \o CreatedAfterDetails(rq.createdAfter)
        \o SortDetails(rq.sort) \o OrderDetails(rq.order)
        \o NumberDetails("page", rq.page, maxPage, PageMessages)
        \o NumberDetails("perPage", rq.perPage, maxPerPage, PerPageMessages)

\* the converted value: numbers for the number texts, the simplified
\* extended ISO form for the date
SchemaValue(rq) ==
    [language |-> rq.language,
     createdAfter |-> IF rq.createdAfter = <<>> THEN <<>>
                      ELSE <<FormatDate(NewDate(rq.createdAfter[1])) \o MidnightSuffix>>,
     sort |-> rq.sort,
     order |-> rq.order,
     page |-> IF rq.page = <<>> THEN <<>>
              ELSE <<ConvertNumber(rq.page[1]).tenths \div 10>>,
     perPage |-> IF rq.perPage = <<>> THEN <<>>
                 ELSE <<ConvertNumber(rq.perPage[1]).tenths \div 10>>]

\* validation stops at the first failed rule
validateSearchQuery_abortEarly(rq) ==
    LET details == SchemaDetails(rq)
    IN  IF details # <<>>
        THEN [threw |-> TRUE, details |-> <<details[1]>>, value |-> EmptyQuery]
        ELSE [threw |-> FALSE, details |-> <<>>, value |-> SchemaValue(rq)]

\* the ValidationError thrown with its details, or the value that replaces
\* req.query
validateSearchQuery(rq) ==
    LET details == SchemaDetails(rq)
    IN  IF details # <<>>
        THEN [threw |-> TRUE, details |-> details, value |-> EmptyQuery]
        ELSE [threw |-> FALSE, details |-> <<>>, value |-> SchemaValue(rq)]

\* the responses of the two rate limiters' handlers
ApiTooManyRequests ==
    Response(429, "TooManyRequestsError",
             "Too many requests from this IP, please try again in 15 minutes.",
             429, <<>>, Undefined, EmptyResult)
SearchTooManyRequests ==
    Response(429, "TooManyRequestsError",
             "Too many search requests from this IP. Please try again in 15 minutes.",
             429, <<>>, Undefined, EmptyResult)

\* the last instant a Date can hold, in the unit of the clock
MaxDateDay == 100000000

\* errorHandler, read at the instant clock: the response it sends, or
\* threw = TRUE when resetDate.toISOString() throws its RangeError because
\* resetTime lies past the last instant of a Date
errorHandler(err, clock) ==
    IF err.name \in AppErrorNames
    THEN IF err.name = "RateLimitError" /\ err.resetTime.kind = "number"
            /\ err.resetTime.value # 0
         THEN IF err.resetTime.value > MaxDateDay
              THEN [threw |-> TRUE, response |-> NoResponse]
              ELSE [threw |-> FALSE,
                    response |-> Response(err.statusCode, err.name, err.message,
                                          err.statusCode, <<>>,
                                          Number(Max(0, err.resetTime.value - clock)),
                                          EmptyResult)]
         ELSE [threw |-> FALSE,
               response |-> Response(err.statusCode, err.name, err.message, err.statusCode,
                                     IF err.name = "ValidationError" THEN err.details
                                     ELSE <<>>,
                                     Undefined, EmptyResult)]
    ELSE [threw |-> FALSE,
          response |-> Response(500, "InternalServerError", err.message, 500, <<>>,
                                Undefined, EmptyResult)]

\* notFoundHandler
notFoundHandler == Response(404, "NotFound", "Route not found", 404, <<>>, Undefined, EmptyResult)

\* the response to an error passed to next(): the error handler's, or
\* Express's own (500, no JSON body) when the error handler throws
RespondError(err, clock) ==
    LET handled == errorHandler(err, clock)
    IN  IF handled.threw
        THEN Response(500, NONE, "", 0, <<>>, Undefined, EmptyResult)
        ELSE handled.response

\* the SearchQuery the controller builds from req.query
ControllerQuery(value) ==
    [language |-> value.language,
     createdAfter |-> value.createdAfter,
     sort |-> value.sort,
     order |-> value.order,
     page |-> IF TruthyNumber(value.page) THEN value.page ELSE <<>>,
     perPage |-> IF TruthyNumber(value.perPage) THEN value.perPage ELSE <<>>]

NumberTexts ==
    {<<>>, <<<<"2">>>>, <<<<"1", "0", "0">>>>, <<<<"0">>>>, <<<<"1", "0", "1">>>>, <<<<"0", ".", "5">>>>, <<<<"a", "b", "c">>>>}

Requests ==
    [language : {<<>>, <<<<"C", "+", "#", "-", "_", ".", "1">>>>, <<<<"<", ">">>>>},
     createdAfter : {<<>>, <<<<"2", "0", "2", "4", "-", "0", "1", "-", "0", "1">>>>, <<<<"n", "o", "t", "-", "a", "-", "d", "a", "t", "e">>>>},
     sort : {NONE, "score", "stars", "newest"},
     order : {NONE, "asc", "up"},
     page : NumberTexts, perPage : NumberTexts]

\* what the limiters have counted for this IP before the request
InitHttp ==
    /\ weights = DefaultWeights
    /\ now = NowDay
    /\ ScoreIdle
    /\ SortIdle
    /\ query = EmptyQuery
    /\ pc = "idle"
    /\ params = EmptyParams
    /\ upstreamCalls = 0
    /\ response = EmptyData
    /\ transformed = <<>>
    /\ result = EmptyResult
    /\ error = NoError
    /\ failure = NoFailure
    /\ built = <<>>
    /\ req \in Requests
    /\ httpPc = "received"
    /\ apiHits \in {0, apiMax}
    /\ searchHits \in {0, searchMax - 1, searchMax}
    /\ apiPassed = apiHits
    /\ searchPassed = searchHits
    /\ requestNo = 1
    /\ validated = EmptyQuery
    /\ controllerCalls = 0
    /\ httpResponse = NoResponse
    /\ responses = 0

\* app.use(apiRateLimiter)
ApiRateLimit ==
    /\ httpPc = "received"
    /\ apiHits' = apiHits + 1
    /\ IF apiHits + 1 > apiMax
       THEN /\ httpResponse' = ApiTooManyRequests
            /\ responses' = responses + 1
            /\ httpPc' = "answered"
            /\ UNCHANGED apiPassed
       ELSE /\ httpPc' = "routed"
            /\ apiPassed' = apiPassed + 1
            /\ UNCHANGED <<httpResponse, responses>>
    /\ UNCHANGED <<weights, now, scoreVars, sortVars, searchVars, built,
                   req, searchHits, validated, controllerCalls, searchPassed, requestNo>>

\* the limiter lets every request pass
SearchRateLimit_unlimited ==
    /\ httpPc = "routed"
    /\ searchHits' = searchHits + 1
    /\ httpPc' = "validating"
    /\ searchPassed' = searchPassed + 1
    /\ UNCHANGED <<weights, now, scoreVars, sortVars, searchVars, built, req, apiHits,
                   validated, controllerCalls, apiPassed, requestNo, httpResponse, responses>>

\* searchRateLimiter, first on the route
SearchRateLimit ==
    /\ httpPc = "routed"
    /\ searchHits' = searchHits + 1
    /\ IF searchHits + 1 > searchMax
       THEN /\ httpResponse' = SearchTooManyRequests
            /\ responses' = responses + 1
            /\ httpPc' = "answered"
            /\ UNCHANGED searchPassed
       ELSE /\ httpPc' = "validating"
            /\ searchPassed' = searchPassed + 1
            /\ UNCHANGED <<httpResponse, responses>>
    /\ UNCHANGED <<weights, now, scoreVars, sortVars, searchVars, built,
                   req, apiHits, validated, controllerCalls, apiPassed, requestNo>>

\* validateSearchQuery; what it throws goes to the error handler
ValidateQuery ==
    /\ httpPc = "validating"
    /\ LET v == validateSearchQuery(req)
       IN  IF v.threw
           THEN /\ httpResponse' =
                      RespondError(ValidationError("Invalid query parameters", v.details), now)
                /\ responses' = responses + 1
                /\ httpPc' = "answered"
                /\ UNCHANGED validated
           ELSE /\ validated' = v.value
                /\ httpPc' = "controller"
                /\ UNCHANGED <<httpResponse, responses>>
    /\ UNCHANGED <<weights, now, scoreVars, sortVars, searchVars, built,
                   req, apiHits, searchHits, controllerCalls, windowVars>>

\* the controller up to the await of githubService.searchRepositories
ControllerStart ==
    /\ httpPc = "controller"
    /\ pc = "idle"
    /\ controllerCalls' = controllerCalls + 1
    /\ query' = ControllerQuery(validated)
    /\ StartSearch(ControllerQuery(validated))
    /\ httpPc' = "awaiting"
    /\ UNCHANGED <<weights, now, scoreVars, sortVars, response, transformed, result,
                   failure, built, req, apiHits, searchHits, validated, httpResponse, responses,
                   windowVars>>

\* the service call has ended: res.status(200).json(result), or the
\* rejection is handed by asyncHandler to the error handler
ControllerEnd ==
    /\ httpPc = "awaiting"
    /\ pc \in {"done", "failed"}
    /\ httpResponse' =
          IF pc = "done"
          THEN Response(200, NONE, "", 0, <<>>, Undefined, result)
          ELSE RespondError(error, now)
    /\ responses' = responses + 1
    /\ httpPc' = "answered"
    /\ UNCHANGED <<weights, now, scoreVars, sortVars, searchVars, built,
                   req, apiHits, searchHits, validated, controllerCalls, windowVars>>

NextHttp ==
    \/ ApiRateLimit
    \/ SearchRateLimit
    \/ ValidateQuery
    \/ ControllerStart
    \/ UpstreamResponds
    \/ UpstreamFails
    \/ ControllerEnd

SpecHttp == InitHttp /\ [][NextHttp]_vars

\* the parameters of C17 whose value is outside what the claim allows
OutOfRange(raw, max) ==
    /\ raw # <<>>
    /\ LET n == ConvertNumber(raw[1])
       IN  ~n.ok \/ n.tenths < 10 \/ n.tenths > 10 * max

Offending ==
    (IF req.sort \notin ValidSorts \cup {NONE} THEN {"sort"} ELSE {})
    \cup (IF req.order \notin ValidOrders \cup {NONE} THEN {"order"} ELSE {})
    \cup (IF OutOfRange(req.page, maxPage) THEN {"page"} ELSE {})
    \cup (IF OutOfRange(req.perPage, maxPerPage) THEN {"perPage"} ELSE {})

DetailsFor(field) ==
    {i \in 1..Len(httpResponse.details) : httpResponse.details[i].field = field}

OneCallNoRetry ==
    /\ upstreamCalls <= 1
    /\ pc \in {"awaiting", "done"} => upstreamCalls = 1
    /\ pc = "failed" =>
          /\ response = EmptyData
          /\ transformed = <<>>
          /\ result = EmptyResult
          /\ upstreamCalls = 1 =>
                /\ failure \in UpstreamFailures
                /\ error = handleAPIError(failure)

OneCallNoRetryWitness ==
    /\ pc = "failed"
    /\ upstreamCalls = 1
    /\ error.name = "GitHubAPIError"
    /\ error.statusCode = 503
    /\ result = EmptyResult

\* the kind and the status of an error
IsError(e, name, statusCode) == e.name = name /\ e.statusCode = statusCode

\* C25: every upstream failure ends as exactly one error: 403 with a rate
\* limit message as RateLimitError 429 that carries the reset time of the
\* header when there is one, 422 as ValidationError 400, 503 as
\* GitHubAPIError 503, any other response as GitHubAPIError with the upstream
\* status, no response as GitHubAPIError 503, anything else as
\* GitHubAPIError 500; a failure never ends in a result.
FailureMapped ==
    /\ pc = "done" => failure = NoFailure
    /\ failure # NoFailure =>
          /\ pc = "failed"
          /\ result = EmptyResult
          /\ IF failure.hasResponse
             THEN IF failure.status = 403 /\ failure.rateLimitMessage
                  THEN /\ IsError(error, "RateLimitError", 429)
                       /\ failure.resetHeader = <<>> <=> error.resetTime = Undefined
                       /\ (failure.resetHeader # <<>> /\ IsDigits(failure.resetHeader[1])) =>
                             error.resetTime = Number(ParseNumber(failure.resetHeader[1]))
                  ELSE IF failure.status = 422
                  THEN IsError(error, "ValidationError", 400)
                  ELSE IF failure.status = 503
                  THEN IsError(error, "GitHubAPIError", 503)
                  ELSE IsError(error, "GitHubAPIError", failure.status)
             ELSE IF failure.hasRequest
             THEN IsError(error, "GitHubAPIError", 503)
             ELSE IsError(error, "GitHubAPIError", 500)

FailureMappedWitness ==
    /\ pc = "failed"
    /\ failure.hasResponse
    /\ failure.status = 403
    /\ failure.rateLimitMessage
    /\ failure.resetHeader # <<>>
    /\ error.name = "RateLimitError"
    /\ error.resetTime = Number(NowDay + 1)

\* C24: two records equal in forks and updated_at whose stars are both at
\* least 100000 get the same score at the same instant, and likewise two
\* records whose forks are both at least 10000; the normalized terms are 0
\* for a count of 0 or less and never above 1.
TermsSaturate ==
    BothScored =>
        /\ (SameExcept(recA, recB, "stargazers_count")
              /\ recA.stargazers_count >= maxStarsReference
              /\ recB.stargazers_count >= maxStarsReference) => scoreA = scoreB
        /\ (SameExcept(recA, recB, "forks_count")
              /\ recA.forks_count >= maxForksReference
              /\ recB.forks_count >= maxForksReference) => scoreA = scoreB
        /\ \A r \in {recA, recB} :
              /\ normalizeStars(r.stargazers_count) \in 0..Unit
              /\ normalizeForks(r.forks_count) \in 0..Unit
              /\ r.stargazers_count <= 0 => normalizeStars(r.stargazers_count) = 0
              /\ r.forks_count <= 0 => normalizeForks(r.forks_count) = 0
              /\ r.stargazers_count >= maxStarsReference
                    => normalizeStars(r.stargazers_count) = Unit
              /\ r.forks_count >= maxForksReference
                    => normalizeForks(r.forks_count) = Unit

TermsSaturateWitness ==
    /\ BothScored
    /\ weights.stars > 0
    /\ SameExcept(recA, recB, "stargazers_count")
    /\ recA.stargazers_count = maxStarsReference
    /\ recB.stargazers_count > maxStarsReference
    /\ scoreA = scoreB
    /\ scoreA > 0

(***************************************************************************)
(* SpecErrors: the error handler on an error handed to next(), and the     *)
(* 404 handler on a request no route has matched.                          *)
(***************************************************************************)

ErrorInputs ==
    {ValidationError(m, d) : m \in {"Invalid query parameters", "Validation failed"},
                             d \in
        {<<>>, <<Detail("sort", "sort must be one of: score, stars, forks, updated")>>, <<Detail("page", PageMessages.min)>>, <<Detail("sort", "sort must be one of: score, stars, forks, updated"), Detail("page", PageMessages.min)>>}}
    \cup {GitHubAPIError("GitHub API request failed", st) :
             st \in {400, 401, 403, 404, 409, 500, 502, 503, 504}}
    \cup {RateLimitError("GitHub API rate limit exceeded. Please try again later.", t) :
             t \in
        {Undefined, NaN, Number(0), Number(NowDay - 1), Number(NowDay + 1), Number(MaxDateDay + 1)}}
    \cup {NotFoundError("Resource not found"),
          PlainError("TypeError", "Cannot read properties of undefined"),
          PlainError("Error", "boom")}

InitErrors ==
    /\ weights = DefaultWeights
    /\ now \in {NowDay, NowDay + MaxTicks}
    /\ ScoreIdle
    /\ SortIdle
    /\ query = EmptyQuery
    /\ pc = "idle"
    /\ params = EmptyParams
    /\ upstreamCalls = 0
    /\ response = EmptyData
    /\ transformed = <<>>
    /\ result = EmptyResult
    /\ failure = NoFailure
    /\ built = <<>>
    /\ req = EmptyRequest
    /\ apiHits = 0
    /\ searchHits = 0
    /\ validated = EmptyQuery
    /\ controllerCalls = 0
    /\ httpResponse = NoResponse
    /\ responses = 0
    /\ apiPassed = 0
    /\ searchPassed = 0
    /\ requestNo = 1
    /\ \/ httpPc = "failing" /\ error \in ErrorInputs
       \/ httpPc = "unmatched" /\ error = NoError

\* app.use(errorHandler)
HandleError ==
    /\ httpPc = "failing"
    /\ httpResponse' = RespondError(error, now)
    /\ responses' = responses + 1
    /\ httpPc' = "answered"
    /\ UNCHANGED <<weights, now, scoreVars, sortVars, searchVars, built,
                   req, apiHits, searchHits, validated, controllerCalls, windowVars>>

\* app.use(notFoundHandler)
HandleNotFound ==
    /\ httpPc = "unmatched"
    /\ httpResponse' = notFoundHandler
    /\ responses' = responses + 1
    /\ httpPc' = "answered"
    /\ UNCHANGED <<weights, now, scoreVars, sortVars, searchVars, built,
                   req, apiHits, searchHits, validated, controllerCalls, windowVars>>

NextErrors == HandleError \/ HandleNotFound

SpecErrors == InitErrors /\ [][NextErrors]_vars

\* C22: an AppError is answered with its statusCode as HTTP status and the
\* body {error: its kind, message, statusCode}, a ValidationError with its
\* details, a RateLimitError with 429 and a resetIn that is never negative;
\* any other error with 500 InternalServerError; an unmatched route with
\* 404 NotFound.
ErrorsAnswered ==
    httpPc = "answered" =>
        /\ responses = 1
        /\ error.name \in AppErrorNames =>
              /\ httpResponse.status = error.statusCode
              /\ httpResponse.error = error.name
              /\ httpResponse.message = error.message
              /\ httpResponse.statusCode = error.statusCode
              /\ error.name = "ValidationError" =>
                    /\ httpResponse.status = 400
                    /\ httpResponse.details = error.details
              /\ error.name = "RateLimitError" =>
                    /\ httpResponse.status = 429
                    /\ httpResponse.resetIn.kind \in {"undefined", "number"}
                    /\ httpResponse.resetIn.value >= 0
        /\ (error.name \notin AppErrorNames /\ error # NoError) =>
              /\ httpResponse.status = 500
              /\ httpResponse.error = "InternalServerError"
        /\ error = NoError =>
              /\ httpResponse.status = 404
              /\ httpResponse.error = "NotFound"

(***************************************************************************)
(* SpecWindow: successive search requests of one IP within one window of   *)
(* both rate limiters.                                                     *)
(***************************************************************************)
WindowRequests ==
    {EmptyRequest,
     [EmptyRequest EXCEPT !.sort = "newest"],
     [EmptyRequest EXCEPT !.language = <<<<"t", "s">>>>, !.sort = "score"]}

\* the limiters have counted earlier requests of the window, all let pass
InitWindow ==
    /\ weights = DefaultWeights
    /\ now = NowDay
    /\ ScoreIdle
    /\ SortIdle
    /\ query = EmptyQuery
    /\ pc = "idle"
    /\ params = EmptyParams
    /\ upstreamCalls = 0
    /\ response = EmptyData
    /\ transformed = <<>>
    /\ result = EmptyResult
    /\ error = NoError
    /\ failure = NoFailure
    /\ built = <<>>
    /\ req \in WindowRequests
    /\ httpPc = "received"
    /\ apiHits \in {0, apiMax - 2, apiMax - 1}
    /\ searchHits \in {0, searchMax - 2, searchMax - 1}
    /\ apiPassed = apiHits
    /\ searchPassed = searchHits
    /\ validated = EmptyQuery
    /\ controllerCalls = 0
    /\ httpResponse = NoResponse
    /\ responses = 0
    /\ requestNo = 1

\* the next request of the same IP arrives in the same window
NextRequest ==
    /\ httpPc = "answered"
    /\ requestNo < MaxRequests
    /\ requestNo' = requestNo + 1
    /\ req' \in WindowRequests
    /\ httpPc' = "received"
    /\ validated' = EmptyQuery
    /\ controllerCalls' = 0
    /\ httpResponse' = NoResponse
    /\ responses' = 0
    /\ query' = EmptyQuery
    /\ pc' = "idle"
    /\ params' = EmptyParams
    /\ upstreamCalls' = 0
    /\ response' = EmptyData
    /\ transformed' = <<>>
    /\ result' = EmptyResult
    /\ error' = NoError
    /\ failure' = NoFailure
    /\ UNCHANGED <<weights, now, scoreVars, sortVars, built, apiHits, searchHits,
                   apiPassed, searchPassed>>

NextWindow ==
    \/ ApiRateLimit
    \/ SearchRateLimit
    \/ ValidateQuery
    \/ ControllerStart
    \/ UpstreamResponds
    \/ UpstreamFails
    \/ ControllerEnd
    \/ NextRequest

SpecWindow == InitWindow /\ [][NextWindow]_vars

\* C23: in one window at most 30 requests of an IP pass the search limiter
\* and at most 100 the API limiter; every further request is answered 429
\* TooManyRequestsError and is not validated, not handed to the controller
\* and sends nothing upstream.
WindowLimited ==
    /\ searchPassed = Min(searchHits, searchMax)
    /\ apiPassed = Min(apiHits, apiMax)
    /\ searchPassed <= searchMax
    /\ apiPassed <= apiMax
    /\ (\/ apiHits > apiMax /\ httpPc # "received"
        \/ searchHits > searchMax /\ httpPc \notin {"received", "routed"}) =>
          /\ httpPc = "answered"
          /\ responses = 1
          /\ httpResponse.status = 429
          /\ httpResponse.error = "TooManyRequestsError"
          /\ validated = EmptyQuery
          /\ controllerCalls = 0
          /\ upstreamCalls = 0
          /\ pc = "idle"

WindowLimitedWitness ==
    /\ requestNo = MaxRequests
    /\ httpPc = "answered"
    /\ searchHits = searchMax + 1
    /\ searchPassed = searchMax
    /\ apiHits <= apiMax
    /\ httpResponse.status = 429
    /\ controllerCalls = 0

\* the request has passed validateSearchQuery
PassedValidation ==
    \/ httpPc \in {"controller", "awaiting"}
    \/ httpPc = "answered" /\ controllerCalls = 1

\* C26: the validator's language alphabet lies within the sanitizer's
\* allow-set, so for every request that passes validation sanitizeInput
\* leaves the language unchanged and the upstream query's language clause is
\* "language:" followed by the validated, non-empty language.
LanguageKept ==
    /\ \A c \in LanguageAlphabet : sanitizeInput(<<c>>) = <<c>>
    /\ PassedValidation /\ req.language # <<>> =>
          /\ validated.language = req.language
          /\ Len(validated.language[1]) >= 1
          /\ sanitizeInput(validated.language[1]) = validated.language[1]
          /\ upstreamCalls = 1 =>
                LET clause == LanguagePrefix \o validated.language[1]
                IN  /\ Len(params.q) >= Len(clause)
                    /\ SubSeq(params.q, 1, Len(clause)) = clause
                    /\ Len(params.q) > Len(clause) => params.q[Len(clause) + 1] = " "
    /\ PassedValidation /\ req.language = <<>> /\ upstreamCalls = 1 =>
          \/ Len(params.q) < Len(LanguagePrefix)
          \/ SubSeq(params.q, 1, Len(LanguagePrefix)) # LanguagePrefix

LanguageKeptWitness ==
    /\ PassedValidation
    /\ req.language # <<>>
    /\ \E i \in 1..Len(req.language[1]) : req.language[1][i] \in {"+", "#", "."}
    /\ upstreamCalls = 1
    /\ req.createdAfter # <<>>
    /\ Len(params.q) > Len(LanguagePrefix \o req.language[1])

(***************************************************************************)
(* SpecHttpFair: the HTTP pipeline with its scheduling.  Every middleware  *)
(* and the controller run to their end once called, and the upstream call  *)
(* ends by a response, a failure or the client's 10 second timeout, so a   *)
(* step that can be taken is taken.                                        *)
(***************************************************************************)
SpecHttpFair == InitHttp /\ [][NextHttp]_vars /\ WF_vars(NextHttp)

\* the response the position in the pipeline calls for
AnsweredByPath ==
    /\ httpPc # "answered" => responses = 0 /\ httpResponse = NoResponse
    /\ httpPc = "answered" =>
          /\ responses = 1
          /\ IF apiHits > apiMax \/ searchHits > searchMax
             THEN /\ httpResponse.status = 429
                  /\ controllerCalls = 0
             ELSE IF validateSearchQuery(req).threw
             THEN /\ httpResponse.status = 400
                  /\ controllerCalls = 0
             ELSE /\ controllerCalls = 1
                  /\ pc \in {"done", "failed"}
                  /\ pc = "failed" =>
                        /\ error.name \in AppErrorNames
                        /\ httpResponse.status = error.statusCode
                  /\ pc = "done" =>
                        /\ httpResponse.status = 200
                        /\ httpResponse.body = result

\* C27: every request to the search endpoint is eventually answered, exactly
\* once, by the step of the pipeline it reaches: 429 when a rate limiter
\* refuses it, 400 when validation fails, the status of the mapped error when
\* the upstream call fails, 200 with the result page otherwise.
RequestAnswered == []AnsweredByPath /\ <>(httpPc = "answered")

====
